---------------------------- MODULE Spec2Model ----------------------------
(***************************************************************************)
(* Model of the two mirror scripts of github_repo_sync:                   *)
(*   src/sync_github_repo.py     (prog = "github")                         *)
(*   src/sync_bitbucket_repo.py  (prog = "bitbucket")                      *)
(*                                                                         *)
(* A Python string is a sequence of one-character strings, so that         *)
(* str.replace, str.startswith, the `in` test and str.strip are computed   *)
(* character by character, as the interpreter computes them.  None and     *)
(* the empty string are both the empty sequence: the code only ever tests  *)
(* credentials for truthiness.                                             *)
(***************************************************************************)
EXTENDS Integers, Sequences, FiniteSets

VARIABLES
    prog,          \* which script runs: "github" or "bitbucket"
    disk,          \* name -> [exists, url]: the mirror directory <name>.git
    base,          \* whether the base folder exists
    cfg,           \* this run's arguments and remote: user, token, flavor, nrem
    pc,            \* position of the process
    page,          \* list_repos: number of the page to request next
    repo_dict,     \* the catalog built so far, in insertion order
    idx,           \* mirror_repos: position in repos.items()
    ops,           \* name -> the git commands run for it in this run
    out,           \* the lines printed in this run
    exit_code,     \* the exit status of the process, -1 while it runs
    listing_failed,\* a listing request of this run raised
    disk0,         \* disk as it was when this run started
    synced,        \* name -> mirrored by a clone, then untouched by change or failure
    inj,           \* the credential-injection harness of InjectSpec
    remote,        \* the pages the hosting platform answers the listing with
    mirror_end,    \* how the call of mirror_repos ended, "none" before it has
    refreshed      \* name -> the run before, alike, set its URL and failed its fetch

vars == <<prog, disk, base, cfg, pc, page, repo_dict, idx, ops, out,
          exit_code, listing_failed, disk0, synced, inj, remote, mirror_end,
          refreshed>>

(***************************************************************************)
(* Bounds.                                                                 *)
(***************************************************************************)
NumRepos == 2
PageSize == 1

(***************************************************************************)
(* Strings.                                                                *)
(***************************************************************************)
None == << >>
HTTPS == <<"h", "t", "t", "p", "s", ":", "/", "/">>
SSH == <<"s", "s", "h", ":", "/", "/">>
HOST == <<"h", "/">>
AT == <<"@">>
COLON == <<":">>
NL == <<"\n">>

\* `if token:` -- None and "" are falsy
Truthy(s) == Len(s) > 0

\* s[i-1 : i-1+len(p)] == p
IsPrefixAt(s, p, i) ==
    /\ i + Len(p) - 1 <= Len(s)
    /\ \A k \in 1..Len(p) : s[i + k - 1] = p[k]

\* s.startswith(p)
StartsWith(s, p) == IsPrefixAt(s, p, 1)

\* p in s
Contains(s, p) == \E i \in 1..(Len(s) + 1) : IsPrefixAt(s, p, i)

\* s.replace(old, new) for a non-empty old: every non-overlapping occurrence,
\* left to right
RECURSIVE ReplaceFrom(_, _, _, _)
ReplaceFrom(s, old, new, i) ==
    IF i > Len(s) THEN << >>
    ELSE IF IsPrefixAt(s, old, i)
         THEN new \o ReplaceFrom(s, old, new, i + Len(old))
         ELSE <<s[i]>> \o ReplaceFrom(s, old, new, i + 1)

Replace(s, old, new) == ReplaceFrom(s, old, new, 1)

\* the characters str.strip() removes: space, \n, \t, \r, \f, and, written
\* here as the characters themselves, \x0b and \x1c to \x1f (Python also
\* strips the spaces beyond ASCII, which a string of this module cannot hold)
IsSpace(c) ==
    c \in {" ", "\n", "\t", "\r", "\f", "", "", "", "", ""}

RECURSIVE LStrip(_)
LStrip(s) ==
    IF Len(s) > 0 /\ IsSpace(s[1]) THEN LStrip(Tail(s)) ELSE s

RECURSIVE RStrip(_)
RStrip(s) ==
    IF Len(s) > 0 /\ IsSpace(s[Len(s)])
    THEN RStrip(SubSeq(s, 1, Len(s) - 1)) ELSE s

\* s.strip()
Strip(s) == LStrip(RStrip(s))

(***************************************************************************)
(* Credential injection.                                                   *)
(***************************************************************************)
\* sync_github_repo.py 98-99: str.replace rewrites every occurrence of
\* "https://", wherever it stands in the URL; the scheme is not tested
GH_inject(clone_url, token) ==
    IF Truthy(token)
    THEN Replace(clone_url, HTTPS, HTTPS \o token \o AT)
    ELSE clone_url

\* sync_bitbucket_repo.py 129-132
BB_inject(clone_url, user, token) ==
    IF StartsWith(clone_url, HTTPS)
    THEN IF Truthy(user) /\ Truthy(token)
         THEN Replace(clone_url, HTTPS, HTTPS \o user \o COLON \o token \o AT)
         ELSE clone_url
    ELSE clone_url

\* the desired URL of a run of script p (the GitHub script takes no user)
Inject(p, clone_url, user, token) ==
    IF p = "github" THEN GH_inject(clone_url, token)
    ELSE BB_inject(clone_url, user, token)

(***************************************************************************)
(* The remote catalog and the runs' arguments.                             *)
(***************************************************************************)
RepoNames == <<"a", "b", "c", "d">>
Names == {RepoNames[i] : i \in 1..NumRepos}
Progs == {"github", "bitbucket"}
Flavors == {"https", "ssh"}
X == <<"x">>
XY == <<"x", "y">>
U == <<"u">>

\* the clone URL the hosting platform publishes for repository n
CloneUrl(n, f) ==
    IF f = "https" THEN HTTPS \o HOST \o <<n>>
    ELSE SSH \o <<"g">> \o AT \o HOST \o <<n>>

\* the credentials a run may be started with
Creds(p) ==
    IF p = "github"
    THEN {[user |-> None, token |-> t] : t \in {None, X, XY}}
    ELSE {[user |-> None, token |-> None], [user |-> U, token |-> X],
          [user |-> U, token |-> XY]}

Cfgs(p) ==
    {[user |-> c.user, token |-> c.token, flavor |-> f, nrem |-> n] :
        c \in Creds(p), f \in Flavors, n \in 0..NumRepos}

Min(a, b) == IF a <= b THEN a ELSE b

\* the repositories on page p of the remote listing (pages count from 1)
PageNames(p, nrem) ==
    [k \in 1..(Min(p * PageSize, nrem) - Min((p - 1) * PageSize, nrem)) |->
        RepoNames[(p - 1) * PageSize + k]]

\* response.json() of the GitHub listing: a list of {name, clone_url}
GH_Page(p, c) ==
    [k \in 1..Len(PageNames(p, c.nrem)) |->
        [name |-> PageNames(p, c.nrem)[k],
         clone_url |-> CloneUrl(PageNames(p, c.nrem)[k], c.flavor)]]

\* response.json() of the Bitbucket listing: values, each with its clone
\* links, and whether a next page exists
BB_Page(p, c) ==
    [values |->
        [k \in 1..Len(PageNames(p, c.nrem)) |->
            [name |-> PageNames(p, c.nrem)[k],
             clone |-> <<[name |-> "https",
                          href |-> CloneUrl(PageNames(p, c.nrem)[k], "https")],
                         [name |-> "ssh",
                          href |-> CloneUrl(PageNames(p, c.nrem)[k], "ssh")]>>]],
     next |-> p * PageSize < c.nrem]

\* the pages the platform holds for a run: the GitHub listing ends with an
\* empty page, the Bitbucket one with a page that has no next link
NumPages(n) == (n + PageSize - 1) \div PageSize
GH_Listing(c) == [p \in 1..NumPages(c.nrem) |-> GH_Page(p, c)]
BB_Listing(c) ==
    [p \in 1..(IF c.nrem = 0 THEN 1 ELSE NumPages(c.nrem)) |-> BB_Page(p, c)]
Listing(p, c) == IF p = "github" THEN GH_Listing(c) ELSE BB_Listing(c)

\* response.json() of the request for page p of the GitHub listing
GH_Response(rem, p) == IF p <= Len(rem) THEN rem[p] ELSE << >>

\* a dict that keeps the URL a name was first given
DictSet_firstWins(d, name, url) ==
    IF \E i \in 1..Len(d) : d[i].name = name
    THEN d
    ELSE Append(d, [name |-> name, url |-> url])

\* repo_dict[name] = url: a new key goes last, an old key keeps its place
DictSet(d, name, url) ==
    IF \E i \in 1..Len(d) : d[i].name = name
    THEN [i \in 1..Len(d) |->
            IF d[i].name = name THEN [name |-> name, url |-> url] ELSE d[i]]
    ELSE Append(d, [name |-> name, url |-> url])

\* sync_github_repo.py 67-68
RECURSIVE GH_AddPage(_, _)
GH_AddPage(d, repos) ==
    IF repos = << >> THEN d
    ELSE GH_AddPage(DictSet(d, Head(repos).name, Head(repos).clone_url),
                    Tail(repos))

\* sync_bitbucket_repo.py 67-71: the href of the first link of the flavor, or ""
RECURSIVE BB_CloneLink(_, _)
BB_CloneLink(links, clone_type) ==
    IF links = << >> THEN None
    ELSE IF Head(links).name = clone_type THEN Head(links).href
         ELSE BB_CloneLink(Tail(links), clone_type)

\* sync_bitbucket_repo.py 65-78
RECURSIVE BB_AddPage(_, _, _)
BB_AddPage(d, values, clone_type) ==
    IF values = << >> THEN d
    ELSE LET clone_url == BB_CloneLink(Head(values).clone, clone_type)
         IN  BB_AddPage(IF Truthy(clone_url)
                        THEN DictSet(d, Head(values).name, clone_url)
                        ELSE d,
                        Tail(values), clone_type)

\* a printed line: what it says and the repository it names ("" for none)
Line(kind, name) == [kind |-> kind, name |-> name, text |-> None]

\* sync_bitbucket_repo.py 72-78: the warning for each repository of a page
\* that has no clone link of the requested type
RECURSIVE BB_Warnings(_, _)
BB_Warnings(values, clone_type) ==
    IF values = << >> THEN << >>
    ELSE (IF Truthy(BB_CloneLink(Head(values).clone, clone_type))
          THEN << >>
          ELSE <<Line("no_clone_url", Head(values).name)>>)
         \o BB_Warnings(Tail(values), clone_type)
\* a printed line that carries text taken from elsewhere (a command's stderr)
LineT(kind, name, text) == [kind |-> kind, name |-> name, text |-> text]

\* a git command run for a repository, with how it ended:
\* "ok" (exit 0), "fail" (non-zero exit), "missing" (no git executable)
Op(cmd, res) == [cmd |-> cmd, res |-> res]

GitResults == {"ok", "fail", "missing"}
\* the ways a call of subprocess.run / check_output ends: as the command
\* did, or with KeyboardInterrupt when the operator interrupts it
Outcomes == GitResults \cup {"interrupt"}
Absent == [exists |-> FALSE, url |-> None]

(***************************************************************************)
(* git, as the scripts see it.  Each command ends "ok", "fail" or          *)
(* "missing", or the operator interrupts it; which one is the              *)
(* environment's choice.                                                   *)
(***************************************************************************)
\* git config --get remote.origin.url exits 1 when the key is not set
GitGetRes(d, res) == IF res = "ok" /\ ~Truthy(d.url) THEN "fail" ELSE res

\* its standard output: the stored URL and a line break
GitGetOut(d) == d.url \o NL

\* its standard error, captured as text: nothing when git ran and found no
\* remote.origin.url (exit status 1), git's message when it failed otherwise
GitGetErr(d, res) == IF res = "ok" THEN None ELSE <<"g">>

\* git remote set-url origin url
GitSetUrl(d, url) == [d EXCEPT !.url = url]

\* the mirror after a set-url that did not end "ok": as it was, but when the
\* operator's interrupt ends the call, git may still have written the URL
GitSetUrlEnded(d, url, res, written) ==
    IF res = "interrupt" /\ written THEN GitSetUrl(d, url) ELSE d

\* what a clone that did not end "ok" may leave behind: nothing, a
\* directory without remote.origin.url, or one with the URL configured
Leftovers == {"none", "bare", "configured"}

\* git clone --mirror url path
GitClone(d, url, res, partial) ==
    IF res = "ok" THEN [exists |-> TRUE, url |-> url]
    ELSE IF res \in {"fail", "interrupt"} /\ partial = "bare"
         THEN [exists |-> TRUE, url |-> None]
    ELSE IF res \in {"fail", "interrupt"} /\ partial = "configured"
         THEN [exists |-> TRUE, url |-> url]
    ELSE d

\* the environment's choices for one repository's commands: how each command
\* the iteration may run on mirror d would end (an existing mirror is never
\* cloned, an absent one is only cloned)
Envs(d) ==
    IF d.exists
    THEN {e \in [get : Outcomes, set : Outcomes, fetch : Outcomes,
                  clone : {"ok"}, partial : {"none"}, err : {"other", "value"},
                  written : BOOLEAN] :
            \* a command that neither script reaches gets no outcome of its own
            /\ e.err = "value" => e.set = "fail"
            /\ e.written => e.set = "interrupt"
            /\ e.get # "ok" => e.set = "ok"
            /\ ( \/ e.get \in {"missing", "interrupt"}
                 \/ e.set \in {"missing", "interrupt"} ) => e.fetch = "ok"}
    ELSE [get : {"ok"}, set : {"ok"}, fetch : {"ok"},
          clone : Outcomes, partial : Leftovers, err : {"other"},
          written : {FALSE}]

\* what git writes on its standard error when "remote set-url" fails: when
\* it cannot write the config file, "fatal: could not set
\* 'remote.origin.url' to '<the new URL>'"; otherwise a message without it
ERR_OTHER == <<"o">>
ERR_SET == <<"s", " ">>
SetUrlStderr(url, e) == IF e.err = "value" THEN ERR_SET \o url ELSE ERR_OTHER

\* what one iteration of the loop did: the mirror after it, the commands it
\* ran, the lines it printed, and how the loop goes on
Res(d, o, l, ctl) == [disk |-> d, ops |-> o, out |-> l, ctl |-> ctl]

(***************************************************************************)
(* sync_github_repo.py, mirror_repos: one iteration of the loop.           *)
(***************************************************************************)
\* an interrupt that the loop takes for a failed repository and goes on
Interrupted_goOn(d, o, l) == Res(d, o, l, "continue")

\* KeyboardInterrupt is no CalledProcessError and no FileNotFoundError: no
\* except clause of mirror_repos catches it, it leaves the loop and the
\* function (sync_github_repo.py 140-148, sync_bitbucket_repo.py 180-192)
Interrupted(d, o, l) == Res(d, o, l, "interrupt")

\* sync_github_repo.py 140-148: the two except clauses
GH_Except(name, res, d, o, l) ==
    IF res = "interrupt" THEN Interrupted(d, o, l)
    ELSE IF res = "missing"
    THEN Res(d, o, Append(l, Line("git_not_found", "")), "break")
    ELSE Res(d, o, Append(l, Line("failed", name)), "continue")

\* sync_github_repo.py 121-132
GH_Fetch(name, d, o, l, e) ==
    LET o1 == Append(o, Op("fetch", e.fetch))
    IN  IF e.fetch = "ok" THEN Res(d, o1, l, "continue")
        ELSE GH_Except(name, e.fetch, d, o1, l)

\* sync_github_repo.py 113-120
GH_SetUrl(name, clone_url, d, o, l, e) ==
    LET o1 == Append(o, Op("set-url", e.set))
        l1 == Append(l, Line("updating", ""))
    IN  IF e.set = "ok"
        THEN GH_Fetch(name, GitSetUrl(d, clone_url), o1, l1, e)
        ELSE GH_Except(name, e.set,
                       GitSetUrlEnded(d, clone_url, e.set, e.written), o1, l1)

\* sync_github_repo.py 106-120
GH_Remote(name, clone_url, token, d, o, l, e) ==
    LET res == GitGetRes(d, e.get)
        o1 == Append(o, Op("config-get", res))
        remote_url == Strip(GitGetOut(d))
    IN  IF res # "ok" THEN GH_Except(name, res, d, o1, l)
        ELSE IF ~Contains(remote_url, token)
             THEN GH_SetUrl(name, clone_url, d, o1, l, e)
             ELSE GH_Fetch(name, d, o1, l, e)

\* sync_github_repo.py 133-139
GH_Clone(name, clone_url, d, l, e) ==
    LET o1 == <<Op("clone", e.clone)>>
        l1 == Append(l, Line("cloning", name))
        d1 == GitClone(d, clone_url, e.clone, e.partial)
    IN  IF e.clone = "ok" THEN Res(d1, o1, l1, "continue")
        ELSE GH_Except(name, e.clone, d1, o1, l1)

\* sync_github_repo.py 95-148
GH_Iter(name, url, token, d, e) ==
    LET clone_url == GH_inject(url, token)
        l0 == <<Line("processing", name)>>
        l1 == Append(l0, Line("exists", name))
    IN  IF d.exists
        THEN IF Truthy(token)
             THEN GH_Remote(name, clone_url, token, d, << >>, l1, e)
             ELSE GH_Fetch(name, d, << >>, l1, e)
        ELSE GH_Clone(name, clone_url, d, l0, e)

(***************************************************************************)
(* sync_bitbucket_repo.py, mirror_repos: one iteration of the loop.        *)
(***************************************************************************)
\* sync_bitbucket_repo.py 180-192: the two except clauses
BB_Except(name, res, d, o, l) ==
    IF res = "interrupt" THEN Interrupted(d, o, l)
    ELSE IF res = "missing"
    THEN Res(d, o, Append(l, Line("git_not_found", "")), "exit1")
    ELSE Res(d, o, Append(l, Line("failed", name)), "continue")

\* sync_bitbucket_repo.py 162-166
BB_Fetch(name, d, o, l, e) ==
    LET o1 == Append(o, Op("fetch", e.fetch))
    IN  IF e.fetch = "ok" THEN Res(d, o1, l, "continue")
        ELSE BB_Except(name, e.fetch, d, o1, l)

\* sync_bitbucket_repo.py 157-161: the inner except clause prints the
\* warning with e.stderr, the captured standard error of the command that
\* failed (config --get or remote set-url); a missing git is not a
\* CalledProcessError and passes to the outer clauses
BB_RemoteExcept(name, res, d, o, l, e, stderr) ==
    IF res \in {"missing", "interrupt"} THEN BB_Except(name, res, d, o, l)
    ELSE BB_Fetch(name, d, o, Append(l, LineT("warning_remote", name, stderr)), e)

\* sync_bitbucket_repo.py 149-156
BB_SetUrl(name, clone_url, d, o, l, e) ==
    LET o1 == Append(o, Op("set-url", e.set))
        l1 == Append(l, Line("updating", ""))
    IN  IF e.set = "ok"
        THEN BB_Fetch(name, GitSetUrl(d, clone_url), o1, l1, e)
        ELSE BB_RemoteExcept(name, e.set,
                             GitSetUrlEnded(d, clone_url, e.set, e.written),
                             o1, l1, e, SetUrlStderr(clone_url, e))

\* sync_bitbucket_repo.py 140-161
BB_Remote(name, clone_url, d, o, l, e) ==
    LET res == GitGetRes(d, e.get)
        o1 == Append(o, Op("config-get", res))
        remote_url == Strip(GitGetOut(d))
    IN  IF res # "ok"
        THEN BB_RemoteExcept(name, res, d, o1, l, e, GitGetErr(d, e.get))
        ELSE IF remote_url # clone_url
             THEN BB_SetUrl(name, clone_url, d, o1, l, e)
             ELSE BB_Fetch(name, d, o1, l, e)

\* sync_bitbucket_repo.py 167-179
BB_Clone(name, clone_url, d, l, e) ==
    LET o1 == <<Op("clone", e.clone)>>
        l1 == Append(l, Line("cloning", name))
        d1 == GitClone(d, clone_url, e.clone, e.partial)
    IN  IF e.clone = "ok" THEN Res(d1, o1, l1, "continue")
        ELSE BB_Except(name, e.clone, d1, o1, l1)

\* sync_bitbucket_repo.py 125-192
BB_Iter(name, url, user, token, d, e) ==
    LET clone_url == BB_inject(url, user, token)
        l0 == <<Line("processing", name)>>
        l1 == Append(l0, Line("exists", name))
    IN  IF d.exists
        THEN BB_Remote(name, clone_url, d, << >>, l1, e)
        ELSE BB_Clone(name, clone_url, d, l0, e)

(***************************************************************************)
(* The process: a run lists the catalog, then mirrors it; runs follow one  *)
(* another on the same disk.                                               *)
(***************************************************************************)
NoOps == [r \in Names |-> << >>]

AllOk(o) == \A i \in 1..Len(o) : o[i].res = "ok"
Ran(o, cmd) == \E i \in 1..Len(o) : o[i].cmd = cmd

NoInj == [stage |-> "off"]

Init ==
    /\ prog \in Progs
    /\ disk = [r \in Names |-> Absent]
    /\ base = FALSE
    /\ cfg = [user |-> None, token |-> None, flavor |-> "https", nrem |-> 0]
    /\ pc = "idle"
    /\ page = 1
    /\ repo_dict = << >>
    /\ idx = 0
    /\ ops = NoOps
    /\ out = << >>
    /\ exit_code = -1
    /\ listing_failed = FALSE
    /\ disk0 = disk
    /\ synced = [r \in Names |-> FALSE]
    /\ inj = NoInj
    /\ remote = << >>
    /\ mirror_end = "none"
    /\ refreshed = [r \in Names |-> FALSE]

\* git remote set-url exited 0 and the fetch after it did not
SetThenFetchFailed(o) ==
    /\ \E i \in 1..Len(o) : o[i] = Op("set-url", "ok")
    /\ \E i \in 1..Len(o) : o[i] = Op("fetch", "fail")

\* the runs that may be started: the arguments and what the platform lists
Runs ==
    [p \in Progs |-> {[cfg |-> c, remote |-> Listing(p, c)] : c \in Cfgs(p)}]

\* the operator starts the script, with arguments and a remote of the run's
\* own; what the run before it did counts for this one when the arguments
\* are the same
StartRun ==
    /\ pc = "idle"
    /\ \E x \in Runs[prog] : LET c == x.cfg IN
        /\ cfg' = c
        /\ remote' = x.remote
        /\ synced' = [r \in Names |-> synced[r] /\ c = cfg]
        /\ refreshed' = [r \in Names |-> refreshed[r] /\ c = cfg]
    /\ pc' = "listing"
    /\ UNCHANGED <<prog, disk, base, page, repo_dict, idx, ops, out, exit_code,
                   listing_failed, disk0, inj, mirror_end>>

\* the process is gone: its memory and its output with it, the disk stays
ProcessEnds ==
    /\ pc = "done"
    /\ pc' = "idle"
    /\ synced' = [r \in Names |-> synced[r] /\ ops[r] # << >>]
    /\ refreshed' = [r \in Names |-> SetThenFetchFailed(ops[r])]
    /\ remote' = << >>
    /\ mirror_end' = "none"
    /\ page' = 1
    /\ repo_dict' = << >>
    /\ idx' = 0
    /\ ops' = NoOps
    /\ out' = << >>
    /\ exit_code' = -1
    /\ listing_failed' = FALSE
    /\ disk0' = disk
    /\ UNCHANGED <<prog, disk, base, cfg, inj>>

\* sync_github_repo.py 58-77: one request of the listing loop
GH_ListStep ==
    /\ pc = "listing" /\ prog = "github"
    /\ \E resp \in {"ok", "http_error", "network_error"} :
        IF resp # "ok"
        THEN /\ out' = Append(out, Line(resp, ""))
             /\ listing_failed' = TRUE
             /\ pc' = "listed"
             /\ UNCHANGED <<repo_dict, page>>
        ELSE IF GH_Response(remote, page) = << >>
             THEN /\ pc' = "listed"
                  /\ UNCHANGED <<repo_dict, page, out, listing_failed>>
             ELSE /\ repo_dict' = GH_AddPage(repo_dict, GH_Response(remote, page))
                  /\ page' = page + 1
                  /\ UNCHANGED <<pc, out, listing_failed>>
    /\ UNCHANGED <<prog, disk, base, cfg, idx, ops, exit_code, disk0, synced, inj,
                   remote, mirror_end, refreshed>>

\* sync_bitbucket_repo.py 59-99: one request of the listing loop
BB_ListStep ==
    /\ pc = "listing" /\ prog = "bitbucket"
    /\ \E resp \in {"ok", "http_error", "network_error"} :
        IF resp # "ok"
        THEN /\ out' = Append(out, Line(resp, ""))
             /\ listing_failed' = TRUE
             /\ pc' = "listed"
             /\ UNCHANGED <<repo_dict, page>>
        ELSE /\ repo_dict' = BB_AddPage(repo_dict, remote[page].values,
                                        cfg.flavor)
             /\ out' = out \o BB_Warnings(remote[page].values, cfg.flavor)
             /\ IF remote[page].next
                THEN page' = page + 1 /\ pc' = pc
                ELSE page' = page /\ pc' = "listed"
             /\ UNCHANGED listing_failed
    /\ UNCHANGED <<prog, disk, base, cfg, idx, ops, exit_code, disk0, synced, inj,
                   remote, mirror_end, refreshed>>

\* sync_github_repo.py 206-215
GH_Main ==
    /\ pc = "listed" /\ prog = "github"
    /\ out' = Append(out, Line("found", ""))
    /\ IF repo_dict # << >>
       THEN pc' = "mirror_start" /\ exit_code' = exit_code
       ELSE pc' = "done" /\ exit_code' = 0
    /\ UNCHANGED <<prog, disk, base, cfg, page, repo_dict, idx, ops,
                   listing_failed, disk0, synced, inj,
                   remote, mirror_end, refreshed>>

\* sync_bitbucket_repo.py 256-272
BB_Main ==
    /\ pc = "listed" /\ prog = "bitbucket"
    /\ IF listing_failed
       THEN pc' = "done" /\ exit_code' = 1 /\ out' = out
       ELSE IF repo_dict = << >>
            THEN /\ pc' = "done" /\ exit_code' = 0
                 /\ out' = Append(out, Line("no_repositories", ""))
            ELSE /\ pc' = "mirror_start" /\ exit_code' = exit_code
                 /\ out' = Append(out, Line("found", ""))
    /\ UNCHANGED <<prog, disk, base, cfg, page, repo_dict, idx, ops,
                   listing_failed, disk0, synced, inj,
                   remote, mirror_end, refreshed>>

\* sync_github_repo.py 92-93: an OSError of makedirs is caught nowhere
GH_MirrorStart ==
    /\ pc = "mirror_start" /\ prog = "github"
    /\ \E mk \in {"ok", "oserror"} :
        IF base \/ mk = "ok"
        THEN base' = TRUE /\ pc' = "mirroring" /\ idx' = 1
             /\ exit_code' = exit_code /\ mirror_end' = mirror_end
             /\ out' = out
        \* the OSError is caught nowhere: the interpreter prints the traceback
        ELSE base' = base /\ pc' = "done" /\ idx' = idx /\ exit_code' = 1
             /\ mirror_end' = "raised"
             /\ out' = Append(out, Line("traceback", ""))
    /\ UNCHANGED <<prog, disk, cfg, page, repo_dict, ops,
                   listing_failed, disk0, synced, inj, remote, refreshed>>

\* sync_bitbucket_repo.py 118-123
BB_MirrorStart ==
    /\ pc = "mirror_start" /\ prog = "bitbucket"
    /\ \E mk \in {"ok", "oserror"} :
        IF base \/ mk = "ok"
        THEN /\ base' = TRUE /\ pc' = "mirroring" /\ idx' = 1
             /\ exit_code' = exit_code /\ out' = out
             /\ mirror_end' = mirror_end
        ELSE /\ base' = base /\ pc' = "done" /\ idx' = idx /\ exit_code' = 1
             /\ out' = Append(out, Line("mkdir_failed", ""))
             /\ mirror_end' = "exited"
    /\ UNCHANGED <<prog, disk, cfg, page, repo_dict, ops,
                   listing_failed, disk0, synced, inj, remote, refreshed>>

\* how the script ends when KeyboardInterrupt leaves mirror_repos:
\* sync_github_repo.py has no handler, the interpreter prints the traceback
\* and ends with status 130; sync_bitbucket_repo.py 276-281 prints
\* "Operation cancelled by user." and exits 0
GH_Cancelled == [line |-> Line("traceback", ""), code |-> 130]
BB_Cancelled == [line |-> Line("cancelled", ""), code |-> 0]
Cancelled(p) == IF p = "github" THEN GH_Cancelled ELSE BB_Cancelled

\* an iteration that writes what it did to every mirror under the base folder
Step_allMirrors(n, r) ==
    /\ disk' = [x \in Names |-> r.disk]
    /\ ops' = [ops EXCEPT ![n] = r.ops]
    /\ out' = IF r.ctl = "interrupt"
              THEN Append(out \o r.out, Cancelled(prog).line)
              ELSE out \o r.out
    /\ synced' = [synced EXCEPT
                    ![n] = AllOk(r.ops) /\ (Ran(r.ops, "clone") \/ synced[n])]
    /\ IF r.ctl = "continue"
       THEN /\ idx' = idx + 1 /\ pc' = pc /\ exit_code' = exit_code
            /\ mirror_end' = mirror_end
       ELSE /\ idx' = idx /\ pc' = "done"
            /\ exit_code' = IF r.ctl = "exit1" THEN 1
                            ELSE IF r.ctl = "interrupt" THEN Cancelled(prog).code
                            ELSE 0
            /\ mirror_end' = IF r.ctl = "exit1" THEN "exited"
                             ELSE IF r.ctl = "interrupt" THEN "raised"
                             ELSE "returned"

\* the state after one iteration of either loop with result r on entry n
Step(n, r) ==
    /\ disk' = [disk EXCEPT ![n] = r.disk]
    /\ ops' = [ops EXCEPT ![n] = r.ops]
    /\ out' = IF r.ctl = "interrupt"
              THEN Append(out \o r.out, Cancelled(prog).line)
              ELSE out \o r.out
    /\ synced' = [synced EXCEPT
                    ![n] = AllOk(r.ops) /\ (Ran(r.ops, "clone") \/ synced[n])]
    /\ IF r.ctl = "continue"
       THEN /\ idx' = idx + 1 /\ pc' = pc /\ exit_code' = exit_code
            /\ mirror_end' = mirror_end
       ELSE /\ idx' = idx /\ pc' = "done"
            /\ exit_code' = IF r.ctl = "exit1" THEN 1
                            ELSE IF r.ctl = "interrupt" THEN Cancelled(prog).code
                            ELSE 0
            /\ mirror_end' = IF r.ctl = "exit1" THEN "exited"
                             ELSE IF r.ctl = "interrupt" THEN "raised"
                             ELSE "returned"

\* sync_github_repo.py 95-148: one iteration; after a break the function
\* returns and the script ends
GH_MirrorStep ==
    /\ pc = "mirroring" /\ prog = "github"
    /\ idx <= Len(repo_dict)
    /\ \E e \in Envs(disk[repo_dict[idx].name]) :
        Step(repo_dict[idx].name,
             GH_Iter(repo_dict[idx].name, repo_dict[idx].url, cfg.token,
                     disk[repo_dict[idx].name], e))
    /\ UNCHANGED <<prog, base, cfg, page, repo_dict, listing_failed, disk0, inj,
                   remote, refreshed>>

\* sync_bitbucket_repo.py 125-192: one iteration; sys.exit(1) ends the script
BB_MirrorStep ==
    /\ pc = "mirroring" /\ prog = "bitbucket"
    /\ idx <= Len(repo_dict)
    /\ \E e \in Envs(disk[repo_dict[idx].name]) :
        Step(repo_dict[idx].name,
             BB_Iter(repo_dict[idx].name, repo_dict[idx].url, cfg.user,
                     cfg.token, disk[repo_dict[idx].name], e))
    /\ UNCHANGED <<prog, base, cfg, page, repo_dict, listing_failed, disk0, inj,
                   remote, refreshed>>

\* sync_github_repo.py 95, 215: the loop is exhausted and the script ends
GH_Finish ==
    /\ pc = "mirroring" /\ prog = "github"
    /\ idx > Len(repo_dict)
    /\ pc' = "done"
    /\ exit_code' = 0
    /\ mirror_end' = "returned"
    /\ UNCHANGED <<prog, disk, base, cfg, page, repo_dict, idx, ops, out,
                   listing_failed, disk0, synced, inj, remote, refreshed>>

\* sync_bitbucket_repo.py 125, 272-273
BB_Finish ==
    /\ pc = "mirroring" /\ prog = "bitbucket"
    /\ idx > Len(repo_dict)
    /\ pc' = "done"
    /\ exit_code' = 0
    /\ out' = Append(out, Line("sync_complete", ""))
    /\ mirror_end' = "returned"
    /\ UNCHANGED <<prog, disk, base, cfg, page, repo_dict, idx, ops,
                   listing_failed, disk0, synced, inj, remote, refreshed>>

Next ==
    \/ StartRun
    \/ ProcessEnds
    \/ GH_ListStep
    \/ BB_ListStep
    \/ GH_Main
    \/ BB_Main
    \/ GH_MirrorStart
    \/ BB_MirrorStart
    \/ GH_MirrorStep
    \/ BB_MirrorStep
    \/ GH_Finish
    \/ BB_Finish

Spec == Init /\ [][Next]_vars

(***************************************************************************)
(* The credential injection on its own: the inputs are drawn in the        *)
(* initial state, one action injects, a second injects the result again.   *)
(***************************************************************************)
HTTP == <<"h", "t", "t", "p", ":", "/", "/">>

\* clone URLs a catalog may carry: HTTPS with and without a user, ssh://,
\* scp-style, http://, and URLs of another scheme in which the text
\* "https://" occurs (after one character, and inside the path)
InjUrls ==
    { HTTPS \o HOST \o <<"a">>,
      HTTPS \o U \o AT \o HOST \o <<"a">>,
      SSH \o <<"g">> \o AT \o HOST \o <<"a">>,
      <<"g">> \o AT \o <<"h">> \o COLON \o <<"a">>,
      HTTP \o HOST \o <<"a">>,
      <<"x">> \o HTTPS \o HOST \o <<"a">>,
      SSH \o <<"g">> \o AT \o HOST \o HTTPS \o <<"a">> }

InjCreds(p) ==
    IF p = "github"
    THEN {[user |-> None, token |-> t] : t \in {None, X, XY}}
    ELSE {[user |-> u, token |-> t] : u \in {None, U}, t \in {None, X, XY}}

InjectInit ==
    /\ prog \in Progs
    /\ disk = [r \in Names |-> Absent]
    /\ base = FALSE
    /\ cfg = [user |-> None, token |-> None, flavor |-> "https", nrem |-> 0]
    /\ pc = "idle"
    /\ page = 1
    /\ repo_dict = << >>
    /\ idx = 0
    /\ ops = NoOps
    /\ out = << >>
    /\ exit_code = -1
    /\ listing_failed = FALSE
    /\ disk0 = disk
    /\ synced = [r \in Names |-> FALSE]
    /\ remote = << >>
    /\ mirror_end = "none"
    /\ refreshed = [r \in Names |-> FALSE]
    /\ \E url \in InjUrls, c \in InjCreds(prog) :
        inj = [stage |-> "input", url |-> url, user |-> c.user,
               token |-> c.token, once |-> None, twice |-> None]

\* the desired URL of a run, computed from the catalog's URL
InjApply ==
    /\ inj.stage = "input"
    /\ inj' = [inj EXCEPT !.stage = "once",
                          !.once = Inject(prog, inj.url, inj.user, inj.token)]
    /\ UNCHANGED <<prog, disk, base, cfg, pc, page, repo_dict, idx, ops, out,
                   exit_code, listing_failed, disk0, synced,
                   remote, mirror_end, refreshed>>

\* the same injection applied to its own result
InjAgain ==
    /\ inj.stage = "once"
    /\ inj' = [inj EXCEPT !.stage = "twice",
                          !.twice = Inject(prog, inj.once, inj.user, inj.token)]
    /\ UNCHANGED <<prog, disk, base, cfg, pc, page, repo_dict, idx, ops, out,
                   exit_code, listing_failed, disk0, synced,
                   remote, mirror_end, refreshed>>

InjectNext == InjApply \/ InjAgain

InjectSpec == InjectInit /\ [][InjectNext]_vars

(***************************************************************************)
(* What a run did, read from its commands and its printed lines.           *)
(***************************************************************************)
Processed(r) == ops[r] # << >>
RanOk(o, cmd) == \E i \in 1..Len(o) : o[i].cmd = cmd /\ o[i].res = "ok"
Ended(o, res) == \E i \in 1..Len(o) : o[i].res = res

IsCloned(o) == o = <<Op("clone", "ok")>>
IsFetched(o) == RanOk(o, "fetch") /\ ~Ran(o, "set-url") /\ ~Ran(o, "clone")
IsUrlUpdatedFetched(o) ==
    RanOk(o, "set-url") /\ RanOk(o, "fetch") /\ ~Ran(o, "clone")

\* some printed line names repository r
Mentioned(r) == \E i \in 1..Len(out) : out[i].name = r
\* a printed line reports a failure of repository r
ReportedFailed(r) ==
    \E i \in 1..Len(out) :
        out[i].name = r /\ out[i].kind \in {"failed", "warning_remote"}
\* the lines that name a repository before any of its commands has run
\* (sync_github_repo.py 97, 103, 134; sync_bitbucket_repo.py 75, 126, 136,
\* 168): they announce the work and say nothing of how it ended
Announcements == {"processing", "exists", "cloning", "no_clone_url"}
\* a printed line reports how the work on repository r ended, and it is not
\* a report of failure
ReportedSuccessful(r) ==
    \E i \in 1..Len(out) :
        /\ out[i].name = r
        /\ out[i].kind \notin Announcements \cup {"failed", "warning_remote"}

\* the catalog's URL of r in this run, and the URL the run wants stored
CatUrl(r) == CloneUrl(r, cfg.flavor)
Desired(r) == Inject(prog, CatUrl(r), cfg.user, cfg.token)

\* the position of r in the catalog (0: not in it)
Pos(r) ==
    IF \E i \in 1..Len(repo_dict) : repo_dict[i].name = r
    THEN CHOOSE i \in 1..Len(repo_dict) : repo_dict[i].name = r
    ELSE 0

(***************************************************************************)
(* C1: with catalog and credentials unchanged and every git command        *)
(* succeeding, the run that finds the mirror absent clones it (Cloned),    *)
(* and every later run fetches it with neither a clone nor a remote-URL    *)
(* update (Fetched).                                                       *)
(***************************************************************************)
C1_Idempotence ==
    \A r \in Names :
        /\ (Processed(r) /\ AllOk(ops[r]) /\ ~disk0[r].exists)
              => IsCloned(ops[r])
        /\ (Processed(r) /\ synced[r] /\ disk0[r].exists)
              => IsFetched(ops[r])

(***************************************************************************)
(* C2: a mirror whose stored URL carries an old credential, reconciled     *)
(* with a different new credential and no git failure, gets its remote     *)
(* updated and is then fetched (UrlUpdated+Fetched), and its stored URL    *)
(* is the new desired URL; for every pair of distinct credentials.         *)
(***************************************************************************)
C2_CredentialRotation ==
    \A r \in Names :
        \A old \in Creds(prog) :
            ( /\ Processed(r) /\ AllOk(ops[r])
              /\ disk0[r].exists
              /\ old # [user |-> cfg.user, token |-> cfg.token]
              /\ disk0[r].url = Inject(prog, CatUrl(r), old.user, old.token)
              /\ disk0[r].url # CatUrl(r)
              /\ Desired(r) # CatUrl(r) )
            => /\ IsUrlUpdatedFetched(ops[r])
               /\ disk[r].url = Desired(r)

(***************************************************************************)
(* C3: injecting into an already injected HTTPS URL, with the same         *)
(* non-empty credentials, gives the injected URL again.                    *)
(***************************************************************************)
C3_InjectIdempotent ==
    ( /\ inj.stage = "twice"
      /\ StartsWith(inj.url, HTTPS)
      /\ Truthy(inj.token) )
    => inj.twice = inj.once

(***************************************************************************)
(* C4: a git command that exits non-zero does not stop the batch: when no  *)
(* git executable went missing and the operator did not interrupt the run, *)
(* every repository of the catalog has been reconciled when the run ends;  *)
(* each repository with a failed command is reported as failed by a line   *)
(* that names it, and each repository whose commands all succeeded is      *)
(* reported as successful.                                                 *)
(***************************************************************************)
C4_PartialBatch ==
    /\ ( /\ pc = "done" /\ idx >= 1
         /\ \A r \in Names :
                ~Ended(ops[r], "missing") /\ ~Ended(ops[r], "interrupt") )
       => \A i \in 1..Len(repo_dict) : Processed(repo_dict[i].name)
    /\ \A r \in Names :
        /\ Ended(ops[r], "fail") => ReportedFailed(r)
        /\ (Processed(r) /\ AllOk(ops[r])) => ReportedSuccessful(r)

(***************************************************************************)
(* C5: when git goes missing at repository k, no git command is run for a  *)
(* later repository of the catalog, and each later one is marked as        *)
(* skipped in what the run reports; any line that names the repository is  *)
(* taken for the mark.                                                     *)
(***************************************************************************)
C5_SkippedMarked ==
    \A k \in Names :
        Ended(ops[k], "missing") =>
            \A j \in 1..Len(repo_dict) :
                j > Pos(k) =>
                    /\ ~Processed(repo_dict[j].name)
                    /\ Mentioned(repo_dict[j].name)

(***************************************************************************)
(* C6: the process exits non-zero if a repository failed or the listing    *)
(* failed, and exits zero when the batch completed without failure, an     *)
(* empty catalog included.                                                 *)
(***************************************************************************)
AnyRepoFailed == \E r \in Names : Processed(r) /\ ~AllOk(ops[r])
BatchCompleted ==
    /\ ~listing_failed
    /\ \A i \in 1..Len(repo_dict) :
        Processed(repo_dict[i].name) /\ AllOk(ops[repo_dict[i].name])

C6_ExitStatus ==
    pc = "done" =>
        /\ (AnyRepoFailed \/ listing_failed) => exit_code # 0
        /\ BatchCompleted => exit_code = 0

(***************************************************************************)
(* C7: for an HTTPS URL the injected URL carries principal:secret@ when    *)
(* both are present, secret@ alone when only the secret is, and is the     *)
(* URL itself when neither is.                                             *)
(***************************************************************************)
C7_InjectionForms ==
    (inj.stage = "once" /\ StartsWith(inj.url, HTTPS)) =>
        LET rest == SubSeq(inj.url, Len(HTTPS) + 1, Len(inj.url))
        IN  /\ (Truthy(inj.user) /\ Truthy(inj.token)) =>
                  inj.once = HTTPS \o inj.user \o COLON \o inj.token \o AT \o rest
            /\ (~Truthy(inj.user) /\ Truthy(inj.token)) =>
                  inj.once = HTTPS \o inj.token \o AT \o rest
            /\ (~Truthy(inj.user) /\ ~Truthy(inj.token)) =>
                  inj.once = inj.url

(***************************************************************************)
(* C8: a URL that does not use the HTTPS scheme is the desired URL as it   *)
(* is, whatever the credentials.                                           *)
(***************************************************************************)
C8_SshPassThrough ==
    (inj.stage = "once" /\ ~StartsWith(inj.url, HTTPS)) => inj.once = inj.url

(***************************************************************************)
(* C9: when reading or rewriting the stored remote URL exits non-zero,     *)
(* the fetch is still attempted for that repository.                       *)
(***************************************************************************)
C9_FetchAfterRemoteFailure ==
    \A r \in Names :
        (\E i \in 1..Len(ops[r]) :
            /\ ops[r][i].cmd \in {"config-get", "set-url"}
            /\ ops[r][i].res = "fail")
        => Ran(ops[r], "fetch")

(***************************************************************************)
(* C10: when a listing request fails, on the first page or a later one,    *)
(* the run runs no clone, fetch or remote update for any repository.       *)
(***************************************************************************)
C10_ListingFailureAborts ==
    listing_failed => \A r \in Names : ~Processed(r)

(***************************************************************************)
(* C11: whatever the repositories' outcomes, a missing git executable and  *)
(* a base folder that cannot be created included, the call of mirror_repos *)
(* returns to its caller: it neither raises nor ends the process (the      *)
(* operator's interrupt apart).                                            *)
(***************************************************************************)
C11_ReturnsToCaller ==
    ( /\ pc = "done" /\ mirror_end # "none"
      /\ \A r \in Names : ~Ended(ops[r], "interrupt") )
    => mirror_end = "returned"

(***************************************************************************)
(* The listing on its own: the pages are drawn in the initial state, with  *)
(* names that repeat, URLs that differ between occurrences and, for        *)
(* Bitbucket, repositories without a clone link of the requested kind.     *)
(* A new name is always the next unused one of ListNames.                  *)
(***************************************************************************)
MaxEntries == 4
MaxPageLen == 2
ListNames == <<"a", "b", "c", "d", "e", "f">>
ALT_HOST == <<"k", "/">>

\* the clone URL of an entry of the listing: "1" and "2" are two URLs of
\* the same repository name
ListUrl(n, kind) ==
    IF kind = "1" THEN CloneUrl(n, "https") ELSE HTTPS \o ALT_HOST \o <<n>>

ListKinds(p) == IF p = "github" THEN {"1", "2"} ELSE {"1", "2", "none"}

UsedNames(f) == Cardinality({f[j].name : j \in 1..Len(f)})

RECURSIVE Flats(_, _)
Flats(p, n) ==
    IF n = 0 THEN {<< >>}
    ELSE UNION {
            {Append(f, [name |-> ListNames[i], kind |-> k]) :
                i \in 1..(UsedNames(f) + 1), k \in ListKinds(p)} :
            f \in Flats(p, n - 1)}

\* one repository as the platform's JSON gives it
GH_Entry(x) == [name |-> x.name, clone_url |-> ListUrl(x.name, x.kind)]
BB_Entry(x) ==
    [name |-> x.name,
     clone |-> IF x.kind = "none"
               THEN <<[name |-> "ssh", href |-> CloneUrl(x.name, "ssh")]>>
               ELSE <<[name |-> "https", href |-> ListUrl(x.name, x.kind)],
                      [name |-> "ssh", href |-> CloneUrl(x.name, "ssh")]>>]

\* the entries of f that page p of size sz holds
Chunk(f, sz, p) == SubSeq(f, (p - 1) * sz + 1, Min(p * sz, Len(f)))
ChunkCount(f, sz) == (Len(f) + sz - 1) \div sz

GH_Pages(f, sz) ==
    [p \in 1..ChunkCount(f, sz) |->
        [k \in 1..Len(Chunk(f, sz, p)) |-> GH_Entry(Chunk(f, sz, p)[k])]]
BB_Pages(f, sz) ==
    [p \in 1..(IF f = << >> THEN 1 ELSE ChunkCount(f, sz)) |->
        [values |-> [k \in 1..Len(Chunk(f, sz, p)) |->
                        BB_Entry(Chunk(f, sz, p)[k])],
         next |-> p < ChunkCount(f, sz)]]

ListInit ==
    /\ prog \in Progs
    /\ disk = [r \in Names |-> Absent]
    /\ base = FALSE
    /\ cfg = [user |-> None, token |-> None, flavor |-> "https", nrem |-> 0]
    /\ pc = "listing"
    /\ page = 1
    /\ repo_dict = << >>
    /\ idx = 0
    /\ ops = NoOps
    /\ out = << >>
    /\ exit_code = -1
    /\ listing_failed = FALSE
    /\ disk0 = disk
    /\ synced = [r \in Names |-> FALSE]
    /\ inj = NoInj
    /\ \E n \in 0..MaxEntries : \E f \in Flats(prog, n) : \E sz \in 1..MaxPageLen :
            remote = IF prog = "github" THEN GH_Pages(f, sz) ELSE BB_Pages(f, sz)
    /\ mirror_end = "none"
    /\ refreshed = [r \in Names |-> FALSE]

ListNext == GH_ListStep \/ BB_ListStep

ListSpec == ListInit /\ [][ListNext]_vars

\* the entries the listing's pages hold, in the order of the pages, each
\* with its name and its clone URL of the requested kind (None: it has none)
PageEntries(pg) ==
    IF prog = "github"
    THEN [k \in 1..Len(pg) |-> [name |-> pg[k].name, url |-> pg[k].clone_url]]
    ELSE [k \in 1..Len(pg.values) |->
            [name |-> pg.values[k].name,
             url |-> IF \E i \in 1..Len(pg.values[k].clone) :
                            pg.values[k].clone[i].name = cfg.flavor
                     THEN pg.values[k].clone[
                            CHOOSE i \in 1..Len(pg.values[k].clone) :
                                pg.values[k].clone[i].name = cfg.flavor].href
                     ELSE None]]

RECURSIVE SeenFrom(_)
SeenFrom(p) ==
    IF p > Len(remote) THEN << >> ELSE PageEntries(remote[p]) \o SeenFrom(p + 1)
Seen == SeenFrom(1)

Listed == pc = "listed" /\ ~listing_failed
CatalogNames == {repo_dict[i].name : i \in 1..Len(repo_dict)}
EachOnce ==
    \A i, j \in 1..Len(repo_dict) :
        repo_dict[i].name = repo_dict[j].name => i = j
PageSizes22 ==
    /\ Len(Seen) = 4
    /\ Cardinality({Seen[k].name : k \in 1..4}) = 4
    /\ Len(remote) = 2
    /\ Len(PageEntries(remote[1])) = 2

(***************************************************************************)
(* C12, as stated: the catalog holds every name seen on a page, each       *)
(* once, with the clone URL of the name's last occurrence; pages of sizes  *)
(* 2, 2, 0 with distinct names give 4 entries.                             *)
(***************************************************************************)
C12_EveryNameSeen ==
    Listed =>
        /\ CatalogNames = {Seen[k].name : k \in 1..Len(Seen)}
        /\ EachOnce
        /\ \A i \in 1..Len(repo_dict) :
            \A k \in 1..Len(Seen) :
                ( /\ Seen[k].name = repo_dict[i].name
                  /\ \A m \in (k + 1)..Len(Seen) : Seen[m].name # Seen[k].name )
                => repo_dict[i].url = Seen[k].url
        /\ PageSizes22 => Len(repo_dict) = 4

(***************************************************************************)
(* C12, amended: the catalog holds every name seen on a page with a clone  *)
(* URL of the requested kind, each once, with the URL of the last such     *)
(* occurrence; a repository without that URL is left out and a warning     *)
(* names it; pages of sizes 2, 2, 0 with distinct names that all have the  *)
(* URL give 4 entries.                                                     *)
(***************************************************************************)
C12_PaginationComplete ==
    Listed =>
        /\ CatalogNames =
              {Seen[k].name : k \in {m \in 1..Len(Seen) : Truthy(Seen[m].url)}}
        /\ EachOnce
        /\ \A i \in 1..Len(repo_dict) :
            \A k \in 1..Len(Seen) :
                ( /\ Seen[k].name = repo_dict[i].name
                  /\ Truthy(Seen[k].url)
                  /\ \A m \in (k + 1)..Len(Seen) :
                        ~(Seen[m].name = Seen[k].name /\ Truthy(Seen[m].url)) )
                => repo_dict[i].url = Seen[k].url
        /\ \A k \in 1..Len(Seen) :
            ~Truthy(Seen[k].url) =>
                \E i \in 1..Len(out) :
                    out[i].kind = "no_clone_url" /\ out[i].name = Seen[k].name
        /\ (PageSizes22 /\ \A k \in 1..4 : Truthy(Seen[k].url))
              => Len(repo_dict) = 4

C12_Witness ==
    /\ Listed
    /\ Len(remote) = 2
    /\ Len(Seen) = 4
    /\ Seen[1].name = Seen[3].name
    /\ Truthy(Seen[1].url) /\ Truthy(Seen[3].url)
    /\ Seen[1].url # Seen[3].url
    /\ repo_dict[1].url = Seen[3].url

(***************************************************************************)
(* C13: no line the program prints, the text it forwards from a failed git *)
(* command included, contains the secret (and so none contains the URL the *)
(* secret was written into).                                               *)
(***************************************************************************)
C13_NoSecretInOutput ==
    Truthy(cfg.token) =>
        \A i \in 1..Len(out) : ~Contains(out[i].text, cfg.token)

(***************************************************************************)
(* C14: once the operator has interrupted the run, at repository r, the    *)
(* run is over, no git command has been started for a repository after r  *)
(* in the catalog, and the mirror of r is neither deleted nor rolled       *)
(* back: a mirror that existed still exists, with the URL it had or the    *)
(* URL this run's set-url wrote, the latter when that set-url succeeded.   *)
(***************************************************************************)
C14_Cancellation ==
    \A r \in Names :
        Ended(ops[r], "interrupt") =>
            /\ pc = "done"
            /\ \A j \in 1..Len(repo_dict) :
                j > Pos(r) => ~Processed(repo_dict[j].name)
            /\ ops[r][Len(ops[r])].res = "interrupt"
            /\ disk0[r].exists =>
                /\ disk[r].exists
                /\ disk[r].url \in {disk0[r].url, Desired(r)}
                /\ RanOk(ops[r], "set-url") => disk[r].url = Desired(r)

C14_Witness ==
    /\ Len(repo_dict) = 2
    /\ Ended(ops[repo_dict[1].name], "interrupt")
    /\ RanOk(ops[repo_dict[1].name], "set-url")
    /\ disk[repo_dict[1].name].url # disk0[repo_dict[1].name].url
    /\ ~Processed(repo_dict[2].name)

(***************************************************************************)
(* C15: when an existing mirror with a stored URL is reconciled and every  *)
(* git command succeeds, the stored remote URL is rewritten exactly when   *)
(* it differs from the desired URL, credentials supplied or not, and       *)
(* afterwards the stored URL is the desired URL.                           *)
(***************************************************************************)
C15_RefreshTrigger ==
    \A r \in Names :
        ( /\ Processed(r) /\ AllOk(ops[r])
          /\ disk0[r].exists /\ Truthy(disk0[r].url) ) =>
            /\ Ran(ops[r], "set-url") <=> disk0[r].url # Desired(r)
            /\ disk[r].url = Desired(r)

(***************************************************************************)
(* C16: whether a repository is cloned or fetched depends on the           *)
(* existence of its mirror directory alone: an absent mirror gets exactly  *)
(* one clone and no fetch; a present one, the one a failed clone left      *)
(* included, gets a fetch attempt and no clone (unless git went missing    *)
(* or the operator interrupted the run before the fetch).                  *)
(***************************************************************************)
C16_CloneOrFetch ==
    \A r \in Names :
        Processed(r) =>
            IF disk0[r].exists
            THEN /\ ~Ran(ops[r], "clone")
                 /\ (~Ended(ops[r], "missing") /\ ~Ended(ops[r], "interrupt"))
                        => Ran(ops[r], "fetch")
            ELSE /\ Cardinality({i \in 1..Len(ops[r]) :
                                    ops[r][i].cmd = "clone"}) = 1
                 /\ ~Ran(ops[r], "fetch")

(***************************************************************************)
(* C17: when set-url succeeds and the fetch after it fails, the stored URL *)
(* stays the desired URL, and the next run with the same catalog and       *)
(* credentials runs no set-url for that repository.                        *)
(***************************************************************************)
C17_WriteThenFailure ==
    \A r \in Names :
        /\ SetThenFetchFailed(ops[r]) => disk[r].url = Desired(r)
        /\ (refreshed[r] /\ Processed(r)) => ~Ran(ops[r], "set-url")

(***************************************************************************)
(* C18: a step changes the mirror of a repository (its existence, its      *)
(* stored URL) only when it is the iteration of the loop that reconciles   *)
(* that repository: the mirrors of all other repositories stay as they     *)
(* were.                                                                   *)
(***************************************************************************)
C18_Frame ==
    [][\A r \in Names :
        disk'[r] # disk[r] =>
            /\ pc = "mirroring"
            /\ idx <= Len(repo_dict)
            /\ repo_dict[idx].name = r]_vars

C18_Witness ==
    /\ pc = "done"
    /\ Len(repo_dict) = 2
    /\ IsCloned(ops[repo_dict[1].name])
    /\ RanOk(ops[repo_dict[2].name], "set-url")
    /\ disk[repo_dict[1].name] # disk0[repo_dict[1].name]
    /\ disk[repo_dict[2].name].url # disk0[repo_dict[2].name].url

=============================================================================
